---- MODULE Spec2Model ----
(***************************************************************************)
(* A model of src/src/inputrules.ts: the input-rule plugin (InputRule,     *)
(* stringHandler, inputRules, run, undoInputRule) running inside an editor *)
(* view.  The document is a sequence of text blocks, a transaction is the  *)
(* list of its replace steps with the document before each step, and the   *)
(* editor's own parts (position resolution, step application, selection    *)
(* mapping, event delivery) are modelled at the call sites that use them.  *)
(***************************************************************************)
EXTENDS Integers, Sequences, FiniteSets, TLC

(***************************************************************************)
(* Bounds of the model.                                                    *)
(***************************************************************************)
\* longest paragraph text a text-input event may leave behind
MaxLen == 3
\* longest text of the code block
MaxCode == 1
\* longest text handed to handleTextInput in one event
MaxText == 2
\* most setTimeout callbacks waiting at once
MaxTimers == 1

\* const MAX_MATCH = 500
MAX_MATCH == 500

(***************************************************************************)
(* Values.  A string is a sequence of one-character strings; null and      *)
(* undefined are the empty tuple and a value v that is present is <<v>>.   *)
(***************************************************************************)
None == <<>>
Some(v) == <<v>>

\* the characters a user types
Chars == {"a", "-"}
\* stands for "\ufffc", the leafText textBetween puts for a non-text leaf
LeafText == "ufffc"
\* an inline leaf node (an image) of size 1 in a text block
Img == "img"

Min(a, b) == IF a < b THEN a ELSE b
Max(a, b) == IF a > b THEN a ELSE b

\* String.prototype.slice(b, e): negative indices count from the end
JsSlice(s, b, e) ==
  LET n  == Len(s)
      b2 == IF b < 0 THEN Max(n + b, 0) ELSE Min(b, n)
      e2 == IF e < 0 THEN Max(n + e, 0) ELSE Min(e, n)
  IN  IF b2 >= e2 THEN <<>> ELSE SubSeq(s, b2 + 1, e2)

\* String.prototype.slice(b)
JsSliceFrom(s, b) == JsSlice(s, b, Len(s))

\* does t occur in s at the 0-based index i
OccursAt(s, t, i) ==
  /\ i >= 0
  /\ i + Len(t) <= Len(s)
  /\ SubSeq(s, i + 1, i + Len(t)) = t

\* String.prototype.lastIndexOf(t): -1 when t does not occur
LastIndexOf(s, t) ==
  LET at == {i \in 0..Len(s) : OccursAt(s, t, i)}
  IN  IF at = {} THEN -1 ELSE CHOOSE i \in at : \A j \in at : j <= i

(***************************************************************************)
(* Regular expressions.  A pattern is an ordered alternation of literals,  *)
(* each with at most one capturing group, all anchored by $ or none:       *)
(* /(?:pre(grp)post|...)$/.  RegExp.exec takes the leftmost start index at *)
(* which an alternative matches and there the first such alternative.      *)
(* A match is [m0, m1, goff]: match[0], match[1] (None when the group did  *)
(* not take part) and the index in match[0] where the group captured,      *)
(* which exec does not report and only the properties read.                *)
(***************************************************************************)
Lit(s) == [pre |-> s, grp |-> None, post |-> <<>>]
Grp(pre, g, post) == [pre |-> pre, grp |-> Some(g), post |-> post]

AltText(alt) ==
  alt.pre \o (IF alt.grp = None THEN <<>> ELSE alt.grp[1]) \o alt.post

AltMatchesAt(alt, anchored, subject, i) ==
  /\ OccursAt(subject, AltText(alt), i)
  /\ anchored => i + Len(AltText(alt)) = Len(subject)

\* the match array of an alternative that matched
Match(alt) == [m0 |-> AltText(alt), m1 |-> alt.grp, goff |-> Len(alt.pre)]

\* the first alternative of the pattern that matches at index i
FirstAlt(pattern, subject, i) ==
  LET ks == {k \in 1..Len(pattern.alts) :
               AltMatchesAt(pattern.alts[k], pattern.anchored, subject, i)}
  IN  pattern.alts[CHOOSE x \in ks : \A y \in ks : x <= y]

Exec(pattern, subject) ==
  LET hits == {i \in 0..Len(subject) :
                 \E k \in 1..Len(pattern.alts) :
                   AltMatchesAt(pattern.alts[k], pattern.anchored, subject, i)}
  IN  IF hits = {} THEN None
      ELSE Some(Match(FirstAlt(pattern, subject,
                               CHOOSE x \in hits : \A y \in hits : x <= y)))

(***************************************************************************)
(* The document: a sequence of text blocks [code, content].  Positions are *)
(* the editor's: a block's opening and closing tokens count one each, its  *)
(* content starts one past its opening token.                              *)
(***************************************************************************)
RECURSIVE BlockStart(_, _)
BlockStart(d, b) ==
  IF b = 1 THEN 1 ELSE BlockStart(d, b - 1) + Len(d[b - 1].content) + 2

DocSize(d) == BlockStart(d, Len(d) + 1) - 1

InBlock(d, b, pos) ==
  /\ BlockStart(d, b) <= pos
  /\ pos <= BlockStart(d, b) + Len(d[b].content)

\* doc.resolve(pos): ok is FALSE where resolve raises a RangeError; b is the
\* text block holding pos, 0 when pos lies between blocks (its parent is the
\* document node); off is $pos.parentOffset
Resolve(d, pos) ==
  LET bs == {b \in 1..Len(d) : InBlock(d, b, pos)}
      b  == IF bs = {} THEN 0 ELSE CHOOSE x \in bs : TRUE
  IN  [ok  |-> pos >= 0 /\ pos <= DocSize(d),
       b   |-> b,
       off |-> IF b = 0 THEN 0 ELSE pos - BlockStart(d, b)]

\* the text of one content item as textBetween gives it
ItemText(x) == IF x = Img THEN LeafText ELSE x

\* $from.parent.textBetween(from, to, null, "\ufffc")
TextBetween(content, from, to) ==
  LET part == JsSlice(content, Max(from, 0), Max(to, 0))
  IN  [i \in 1..Len(part) |-> ItemText(part[i])]

(***************************************************************************)
(* Plugins of the editor state, in state.plugins order.  Plugin 1 is some  *)
(* other plugin (no isInputRules in its spec, a state that is always       *)
(* truthy); the others are made by inputRules({rules}).                    *)
(***************************************************************************)
Plugins == <<1, 2, 3>>
PluginSet == {Plugins[i] : i \in 1..Len(Plugins)}

\* isInputRules: true in the plugin spec
IsInputRules(p) == p # 1
Engines == {p \in PluginSet : IsInputRules(p)}

(***************************************************************************)
(* Selections and steps.  A selection is a text selection [anchor, head];  *)
(* $cursor is its position when it is empty.  A step replaces [from, to)   *)
(* of the document by the inline content ins.                              *)
(***************************************************************************)
SelFrom(sel) == Min(sel.anchor, sel.head)
SelTo(sel) == Max(sel.anchor, sel.head)
Cursor(pos) == [anchor |-> pos, head |-> pos]

\* StepMap.map(pos, 1) of the step's map [from, to - from, ins.length]
MapPos(step, pos) ==
  LET start   == step.from
      oldSize == step.to - step.from
      newSize == Len(step.ins)
      end     == start + oldSize
  IN  IF start > pos THEN pos
      ELSE IF pos <= end
             THEN LET side == IF oldSize = 0 THEN 1
                              ELSE IF pos = start THEN -1 ELSE 1
                  IN  start + (IF side < 0 THEN 0 ELSE newSize)
             ELSE pos + newSize - oldSize

MapSel(step, sel) ==
  [anchor |-> MapPos(step, sel.anchor), head |-> MapPos(step, sel.head)]

\* doc.replace(from, to, slice) with flat inline content inside one text
\* block, rf and rt being the resolved ends: content.cut(0, $from.parentOffset)
\* + ins + content.cut($to.parentOffset).  Positions that do not resolve into
\* one text block make the call raise (ok = FALSE).
Replace(d, rf, rt, ins) ==
  IF rf.ok /\ rt.ok /\ rf.b > 0 /\ rf.b = rt.b
    THEN [ok  |-> TRUE,
          doc |-> [d EXCEPT ![rf.b].content =
                     JsSlice(@, 0, rf.off) \o ins \o JsSliceFrom(@, rt.off)]]
    ELSE [ok |-> FALSE, doc |-> d]

\* step.apply(doc) for a replace step
StepApply(d, step) ==
  Replace(d, Resolve(d, step.from), Resolve(d, step.to), step.ins)

\* the content between two resolved positions of one text block
Between(d, rf, rt) ==
  IF rf.b = 0 \/ rf.b # rt.b THEN <<>>
  ELSE JsSlice(d[rf.b].content, rf.off, rt.off)

\* doc.slice(from, to) inside one text block; empty when from >= to
DocSlice(d, from, to) ==
  IF from >= to THEN <<>> ELSE Between(d, Resolve(d, from), Resolve(d, to))

\* step.invert(doc): ReplaceStep(from, from + slice.size, doc.slice(from, to))
Invert(step, d) ==
  [from |-> step.from,
   to   |-> step.from + Len(step.ins),
   ins  |-> DocSlice(d, step.from, step.to)]

(***************************************************************************)
(* Transactions: the steps, the document before each step (tr.docs), the   *)
(* current document and selection, selectionSet and the metadata per       *)
(* plugin.  ok is FALSE once building the transaction has raised.          *)
(* docChanged is steps.length > 0.                                         *)
(***************************************************************************)
\* state.tr
NewTr(st) ==
  [steps |-> <<>>, docs |-> <<>>, doc |-> st.doc, sel |-> st.sel,
   selectionSet |-> FALSE, meta |-> [p \in PluginSet |-> None], ok |-> TRUE]

DocChanged(tr) == Len(tr.steps) > 0

\* tr.addStep(step, doc) with the result of step.apply(tr.doc)
AddStep(tr, step, result) ==
  IF ~tr.ok \/ ~result.ok THEN [tr EXCEPT !.ok = FALSE]
  ELSE [tr EXCEPT !.steps = Append(@, step),
                  !.docs  = Append(@, tr.doc),
                  !.doc   = result.doc,
                  !.sel   = MapSel(step, @)]

\* tr.step(step): raises when the step cannot be applied
TrStep(tr, step) == AddStep(tr, step, StepApply(tr.doc, step))

\* tr.setSelection(selection)
TrSetSelection(tr, sel) == [tr EXCEPT !.sel = sel, !.selectionSet = TRUE]

\* the end of tr.insertText: a selection that is not empty collapses to its end
CollapseSelection(tr) ==
  IF ~tr.ok THEN tr
  ELSE IF tr.sel.anchor # tr.sel.head
         THEN TrSetSelection(tr, Cursor(SelTo(tr.sel)))
         ELSE tr

\* tr.insertText(text, from, to) with a non-empty text: a replace step, then
\* the selection
InsertText(tr, text, from, to) ==
  CollapseSelection(TrStep(tr, [from |-> from, to |-> to, ins |-> text]))

\* a record whose range is that of the typed text
SetMetaTypedRange(tr, p, from, to, text) ==
  [tr EXCEPT !.meta[p] =
     Some([transform |-> [steps |-> tr.steps, docs |-> tr.docs],
           from |-> from, to |-> from + Len(text), text |-> text])]

\* tr.setMeta(plugin, {transform: tr, from, to, text})
SetMeta(tr, p, from, to, text) ==
  [tr EXCEPT !.meta[p] =
     Some([transform |-> [steps |-> tr.steps, docs |-> tr.docs],
           from |-> from, to |-> to, text |-> text])]

(***************************************************************************)
(* Rules.  A rule is [match, kind, str]: kind "string" is a rule made with *)
(* a string handler str, the other kinds are handler functions: "veto"     *)
(* returns null, "noop" returns state.tr without a step.                   *)
(***************************************************************************)
\* a string handler without the cutOff correction
StringHandlerGroupNoCutOff(string, st, match, start, end, offset) ==
  InsertText(NewTr(st), string \o JsSliceFrom(match.m0, offset + Len(match.m1[1])),
             start + offset, end)

\* the branch "if (match[1])" of stringHandler, offset being
\* match[0].lastIndexOf(match[1])
StringHandlerGroup(string, st, match, start, end, offset) ==
  LET insert1 == string \o JsSliceFrom(match.m0, offset + Len(match.m1[1]))
      start1  == start + offset
      cutOff  == start1 - end
  IN  IF cutOff > 0
        THEN InsertText(NewTr(st),
                        JsSlice(match.m0, offset - cutOff, offset) \o insert1,
                        end, end)
        ELSE InsertText(NewTr(st), insert1, start1, end)

\* stringHandler(string)(state, match, start, end)
StringHandler(string, st, match, start, end) ==
  IF match.m1 # None /\ match.m1[1] # <<>>
    THEN StringHandlerGroup(string, st, match, start, end,
                            LastIndexOf(match.m0, match.m1[1]))
    ELSE InsertText(NewTr(st), string, start, end)

\* rules[i].handler(state, match, start, end): None is null
Handler(rule, st, match, start, end) ==
  CASE rule.kind = "string" -> Some(StringHandler(rule.str, st, match, start, end))
    [] rule.kind = "noop"   -> Some(NewTr(st))
    [] OTHER                -> None

(***************************************************************************)
(* run(view, from, to, text, rules, plugin).  The result is a log of the   *)
(* call: ret is what it returns ("threw" when a handler raised), guard the *)
(* early return taken ("none" when the rules were reached), window the     *)
(* value of textBefore, evald the rules whose pattern was executed, called *)
(* the rules whose handler was invoked, applied the rule that produced the *)
(* transaction (0: none) and trs the transactions passed to view.dispatch. *)
(***************************************************************************)
NewLog(p, from, to, text) ==
  [p |-> p, from |-> from, to |-> to, text |-> text, ret |-> "false",
   guard |-> "none", window |-> <<>>, evald |-> <<>>, called |-> <<>>,
   applied |-> 0, trs |-> <<>>]

\* the handler's start argument: from - (match[0].length - text.length)
MatchStart(log, match) == log.from - (Len(match.m0) - Len(log.text))

\* the handler's result for the outcome of exec: None when there is no match
\* or the handler returns null
Try(rule, st, log, match) ==
  IF match = None THEN None
  ELSE Handler(rule, st, match[1], MatchStart(log, match[1]), log.to)

\* the log once rule i was evaluated
Evaluated(log, i, match) ==
  [log EXCEPT !.evald  = Append(@, i),
              !.called = IF match = None THEN @ ELSE Append(@, i)]

RECURSIVE RunLoopContinues(_, _, _, _)
RECURSIVE RunLoopStopsOnVeto(_, _, _, _)
RECURSIVE RunLoop(_, _, _, _)

\* a loop body without "return true": it dispatches and goes on
RunRuleContinues(rs, i, st, log, log1, tr) ==
  IF tr = None THEN RunLoopContinues(rs, i + 1, st, log1)
  ELSE IF ~tr[1].ok THEN [log1 EXCEPT !.ret = "threw"]
  ELSE RunLoopContinues(rs, i + 1, st,
         [log1 EXCEPT !.ret     = "true",
                      !.applied = IF @ = 0 THEN i ELSE @,
                      !.trs     = Append(@, SetMeta(tr[1], log.p, log.from,
                                                    log.to, log.text))])

\* a loop without "return true"
RunLoopContinues(rs, i, st, log) ==
  IF i > Len(rs) THEN log
  ELSE RunRuleContinues(rs, i, st, log,
                        Evaluated(log, i, Exec(rs[i].match, log.window)),
                        Try(rs[i], st, log, Exec(rs[i].match, log.window)))

\* a loop body that returns false when a handler returns null
RunRuleStopsOnVeto(rs, i, st, log, log1, tr) ==
  IF log1.called = log.called THEN RunLoopStopsOnVeto(rs, i + 1, st, log1)
  ELSE IF tr = None THEN [log1 EXCEPT !.ret = "false"]
  ELSE IF ~tr[1].ok THEN [log1 EXCEPT !.ret = "threw"]
  ELSE [log1 EXCEPT !.ret     = "true",
                    !.applied = i,
                    !.trs     = <<SetMeta(tr[1], log.p, log.from, log.to, log.text)>>]

\* a loop that returns false when a handler returns null
RunLoopStopsOnVeto(rs, i, st, log) ==
  IF i > Len(rs) THEN [log EXCEPT !.ret = "false"]
  ELSE RunRuleStopsOnVeto(rs, i, st, log,
                          Evaluated(log, i, Exec(rs[i].match, log.window)),
                          Try(rs[i], st, log, Exec(rs[i].match, log.window)))

\* one turn of the for loop of run: log1 is the log once rule i was
\* evaluated, tr the handler's result for it
RunRule(rs, i, st, log, log1, tr) ==
  IF tr = None THEN RunLoop(rs, i + 1, st, log1)
  ELSE IF ~tr[1].ok THEN [log1 EXCEPT !.ret = "threw"]
  ELSE [log1 EXCEPT !.ret     = "true",
                    !.applied = i,
                    !.trs     = <<SetMeta(tr[1], log.p, log.from, log.to, log.text)>>]

\* the for loop of run, from rule i on
RunLoop(rs, i, st, log) ==
  IF i > Len(rs) THEN [log EXCEPT !.ret = "false"]
  ELSE RunRule(rs, i, st, log,
               Evaluated(log, i, Exec(rs[i].match, log.window)),
               Try(rs[i], st, log, Exec(rs[i].match, log.window)))

\* $from.parent.type.spec.code
ParentIsCode(d, r) == r.b > 0 /\ d[r.b].code

\* textBefore without the bound: all the text of $from.parent before $from
TextBeforeUnbounded(d, r) ==
  TextBetween(IF r.b = 0 THEN <<>> ELSE d[r.b].content, 0, r.off)

\* textBefore: the text of $from.parent before $from, at most MAX_MATCH long
TextBefore(d, r) ==
  TextBetween(IF r.b = 0 THEN <<>> ELSE d[r.b].content,
              Max(0, r.off - MAX_MATCH), r.off)

\* run without "if (view.composing) return false"
RunWithoutComposingGuard(rs, st, isComposing, log, r) ==
  IF ParentIsCode(st.doc, r) THEN [log EXCEPT !.guard = "code"]
  ELSE RunLoop(rs, 1, st, [log EXCEPT !.window = TextBefore(st.doc, r) \o log.text])

\* the body of run, r being $from = state.doc.resolve(from)
RunResolved(rs, st, isComposing, log, r) ==
  IF isComposing THEN [log EXCEPT !.guard = "composing"]
  ELSE IF ParentIsCode(st.doc, r) THEN [log EXCEPT !.guard = "code"]
  ELSE RunLoop(rs, 1, st, [log EXCEPT !.window = TextBefore(st.doc, r) \o log.text])

Run(p, rs, st, isComposing, from, to, text) ==
  RunResolved(rs, st, isComposing, NewLog(p, from, to, text), Resolve(st.doc, from))

(***************************************************************************)
(* The plugin state: init() is null, apply(tr, prev) below.                *)
(***************************************************************************)
\* apply that never resets the state
ApplyKeepsState(p, tr, prev) ==
  LET stored == tr.meta[p]
  IN  IF stored # None THEN stored ELSE prev

\* apply that looks at the changes before the metadata
ApplyResetFirst(p, tr, prev) ==
  LET stored == tr.meta[p]
  IN  IF tr.selectionSet \/ DocChanged(tr) THEN None
      ELSE IF stored # None THEN stored ELSE prev

\* apply that does not look at selectionSet
ApplyIgnoresSelection(p, tr, prev) ==
  LET stored == tr.meta[p]
  IN  IF stored # None THEN stored
      ELSE IF DocChanged(tr) THEN None ELSE prev

\* apply that does not look at docChanged
ApplyIgnoresDocChanged(p, tr, prev) ==
  LET stored == tr.meta[p]
  IN  IF stored # None THEN stored
      ELSE IF tr.selectionSet THEN None ELSE prev

Apply(p, tr, prev) ==
  LET stored == tr.meta[p]
  IN  IF stored # None THEN stored
      ELSE IF tr.selectionSet \/ DocChanged(tr) THEN None ELSE prev

\* state.apply(tr): the new document, selection and plugin states
ApplyTr(st, tr) ==
  [doc    |-> tr.doc,
   sel    |-> tr.sel,
   pstate |-> [p \in Engines |-> Apply(p, tr, st.pstate[p])]]

\* plugin.getState(state) is truthy
HasState(st, p) == IF IsInputRules(p) THEN st.pstate[p] # None ELSE TRUE

(***************************************************************************)
(* undoInputRule(state, dispatch).  ret is what it returns ("threw" when   *)
(* building the transaction raised), trs the transactions handed to        *)
(* dispatch, found the plugin whose state it used (0: none).               *)
(***************************************************************************)
\* tr.replaceWith(from, to, schema.text(text, marks)) with
\* marks = tr.doc.resolve(from).marks(): schema.text raises for an empty
\* text, resolve(from) for a position outside the document
UndoReplace(tr, undoable) ==
  IF ~tr.ok \/ ~Resolve(tr.doc, undoable.from).ok \/ undoable.text = <<>>
    THEN [tr EXCEPT !.ok = FALSE]
    ELSE TrStep(tr, [from |-> undoable.from, to |-> undoable.to,
                     ins |-> undoable.text])

\* the steps of toUndo inverted, last first, on state.tr
RECURSIVE UndoSteps(_, _, _)
UndoSteps(st, toUndo, j) ==
  IF j = Len(toUndo.steps) + 1 THEN NewTr(st)
  ELSE TrStep(UndoSteps(st, toUndo, j + 1), Invert(toUndo.steps[j], toUndo.docs[j]))

\* the transaction built for the record undoable
UndoTr(st, undoable) == UndoReplace(UndoSteps(st, undoable.transform, 1), undoable)

\* an undo whose transaction carries the record again
UndoResultKeepsRecord(st, plugin, tr) ==
  IF tr.ok
    THEN [ret |-> "true", trs |-> <<[tr EXCEPT !.meta[plugin] = st.pstate[plugin]]>>,
          found |-> plugin]
    ELSE [ret |-> "threw", trs |-> <<>>, found |-> plugin]

\* what undoInputRule does with the transaction tr it built for the plugin
UndoResult(st, plugin, tr) ==
  IF tr.ok
    THEN [ret |-> "true", trs |-> <<tr>>, found |-> plugin]
    ELSE [ret |-> "threw", trs |-> <<>>, found |-> plugin]

\* the loop over state.plugins, from plugin i on
RECURSIVE UndoLoop(_, _, _)
UndoLoop(st, i, hasDispatch) ==
  IF i > Len(Plugins) THEN [ret |-> "false", trs |-> <<>>, found |-> 0]
  ELSE IF IsInputRules(Plugins[i]) /\ HasState(st, Plugins[i])
    THEN IF hasDispatch
           THEN UndoResult(st, Plugins[i], UndoTr(st, st.pstate[Plugins[i]][1]))
           ELSE [ret |-> "true", trs |-> <<>>, found |-> Plugins[i]]
    ELSE UndoLoop(st, i + 1, hasDispatch)

UndoInputRule(st, hasDispatch) == UndoLoop(st, 1, hasDispatch)

(***************************************************************************)
(* The rules the engines are constructed with.                             *)
(***************************************************************************)
Pattern(alts, anchored) == [alts |-> alts, anchored |-> anchored]
StringRule(pattern, string) == [match |-> pattern, kind |-> "string", str |-> string]
FnRule(pattern, kind) == [match |-> pattern, kind |-> kind, str |-> <<>>]

\* /-$/
PDash == Pattern(<<Lit(<<"-">>)>>, TRUE)
\* /--$/
PDashDash == Pattern(<<Lit(<<"-", "-">>)>>, TRUE)
\* /a$/
PA == Pattern(<<Lit(<<"a">>)>>, TRUE)
\* /aa$/
PAA == Pattern(<<Lit(<<"a", "a">>)>>, TRUE)
\* /-(a)$/
PDashA == Pattern(<<Grp(<<"-">>, <<"a">>, <<>>)>>, TRUE)

\* the rule lists the two engines are constructed with
Registries ==
  { [p \in Engines |->
       IF p = 2 THEN <<FnRule(PDash, "veto"),
                       StringRule(PDashDash, <<"a">>),
                       StringRule(PDash, <<"a">>)>>
                ELSE <<FnRule(PA, "veto"),
                       FnRule(PAA, "noop"),
                       StringRule(PDashA, <<"-">>)>>] }

\* the texts of a text-input event
RECURSIVE TextsOfLen(_)
TextsOfLen(n) ==
  IF n = 0 THEN {<<>>}
  ELSE {Append(t, c) : t \in TextsOfLen(n - 1), c \in Chars}

InputTexts == UNION {TextsOfLen(n) : n \in 1..MaxText}

\* the paragraph texts an editor starts with
InitTexts == {<<"-">>}

(***************************************************************************)
(* State.                                                                  *)
(*   rules     the rules each engine was constructed with                  *)
(*   doc, sel  view.state.doc and view.state.selection                     *)
(*   pstate    each engine's plugin state: None or <<record>>              *)
(*   composing view.composing                                              *)
(*   timers    the setTimeout callbacks waiting, by plugin                 *)
(*   last      what the last event did: its kind, the run calls it made,   *)
(*             the document before them, whether an engine held a record   *)
(*             before it, what apply read of what it dispatched and,       *)
(*             for undoInputRule, its result                               *)
(***************************************************************************)
VARIABLES rules, doc, sel, pstate, composing, timers, last

vars == <<rules, doc, sel, pstate, composing, timers, last>>

St == [doc |-> doc, sel |-> sel, pstate |-> pstate]

NoUndo == [ret |-> "none", hasDispatch |-> FALSE, afterRule |-> FALSE,
           expect |-> <<>>]

\* some engine holds a record
HasRecord == \E p \in Engines : pstate[p] # None

\* what apply reads of a transaction: docChanged, selectionSet, the metadata
TrInfo(tr) ==
  [docChanged |-> DocChanged(tr), selectionSet |-> tr.selectionSet, meta |-> tr.meta]

Infos(trs) == [i \in 1..Len(trs) |-> TrInfo(trs[i])]

Event(kind, runs, trs) ==
  [kind |-> kind, runs |-> runs, pre |-> IF runs = <<>> THEN <<>> ELSE doc,
   had |-> HasRecord, trs |-> Infos(trs), undo |-> NoUndo]

Init ==
  /\ rules \in Registries
  /\ \E t \in InitTexts :
       doc = <<[code |-> FALSE, content |-> t], [code |-> TRUE, content |-> <<>>]>>
  /\ sel = Cursor(1)
  /\ pstate = [p \in Engines |-> None]
  /\ composing = FALSE
  /\ timers = <<>>
  /\ last = [kind |-> "init", runs |-> <<>>, pre |-> <<>>, had |-> FALSE,
             trs |-> <<>>, undo |-> NoUndo]

\* view.updateState(next)
UpdateState(next) ==
  /\ doc' = next.doc
  /\ sel' = next.sel
  /\ pstate' = next.pstate

\* view.dispatch(tr): view.updateState(view.state.apply(tr))
Dispatch(tr) == UpdateState(ApplyTr(St, tr))

\* the longest text the block b may hold after a text input
Limit(b) == IF doc[b].code THEN MaxCode ELSE MaxLen

\* view.someProp("handleTextInput", f => f(view, from, to, text)): the
\* plugins' handlers in order until one returns true; the logs of the calls
RECURSIVE SomeTextInput(_, _, _, _)

\* the logs from the call log of handler i on
HandlerReturned(i, from, to, text, log) ==
  IF log.ret = "false"
    THEN <<log>> \o SomeTextInput(i + 1, from, to, text)
    ELSE <<log>>

SomeTextInput(i, from, to, text) ==
  IF i > Len(Plugins) THEN <<>>
  ELSE IF ~IsInputRules(Plugins[i]) THEN SomeTextInput(i + 1, from, to, text)
  ELSE HandlerReturned(i, from, to, text,
         Run(Plugins[i], rules[Plugins[i]], St, composing, from, to, text))

\* the end of a text-input event: fin is the log of the last handler called
\* and own the view's own insertion of the text, used when none handled it
TextInputDone(logs, fin, own) ==
  CASE fin.ret = "true"  -> /\ Dispatch(fin.trs[1])
                            /\ last' = Event("textInput", logs, fin.trs)
    [] fin.ret = "false" -> /\ Dispatch(own)
                            /\ last' = Event("textInput", logs, <<own>>)
    [] OTHER             -> /\ UNCHANGED <<doc, sel, pstate>>
                            /\ last' = Event("textInput", logs, <<>>)

\* the handlers of a text-input event were called and returned logs
TextInputHandled(text, from, to, logs) ==
  TextInputDone(logs, logs[Len(logs)], InsertText(NewTr(St), text, from, to))

\* the event is in a text block r.b that may grow by delta
Fits(r, delta) == r.b > 0 /\ Len(doc[r.b].content) + delta <= Limit(r.b)

\* a text-input event for the selected range: handleTextInput of the plugins
\* and, when none handled it, the view's own insertion of the text
TextInput(text) ==
  /\ Fits(Resolve(doc, SelFrom(sel)), Len(text) - (SelTo(sel) - SelFrom(sel)))
  /\ TextInputHandled(text, SelFrom(sel), SelTo(sel),
                      SomeTextInput(1, SelFrom(sel), SelTo(sel), text))
  /\ UNCHANGED <<rules, composing, timers>>

\* the view raises its composing flag when a composition starts
CompositionStart ==
  /\ ~composing
  /\ composing' = TRUE
  /\ last' = Event("compositionstart", <<>>, <<>>)
  /\ UNCHANGED <<rules, doc, sel, pstate, timers>>

\* the view clears its composing flag (in its own compositionend handling
\* or when it ends the composition itself)
EndComposition ==
  /\ composing
  /\ composing' = FALSE
  /\ last' = Event("endcomposition", <<>>, <<>>)
  /\ UNCHANGED <<rules, doc, sel, pstate, timers>>

\* the plugin whose handleDOMEvents.compositionend the view calls: the
\* handlers run in plugin order until one returns true, and this one does
RECURSIVE SomeCompositionEnd(_)
SomeCompositionEnd(i) ==
  IF i > Len(Plugins) THEN 0
  ELSE IF IsInputRules(Plugins[i]) THEN Plugins[i]
  ELSE SomeCompositionEnd(i + 1)

\* handleDOMEvents.compositionend: setTimeout(callback), return true
CompositionEnd ==
  /\ composing
  /\ Len(timers) < MaxTimers
  /\ SomeCompositionEnd(1) # 0
  /\ timers' = Append(timers, SomeCompositionEnd(1))
  /\ last' = Event("compositionend", <<>>, <<>>)
  /\ UNCHANGED <<rules, doc, sel, pstate, composing>>

\* the end of the setTimeout callback: log is the log of its call of run
TimerRan(log) ==
  /\ IF log.ret = "true"
       THEN Dispatch(log.trs[1])
       ELSE UNCHANGED <<doc, sel, pstate>>
  /\ last' = Event("timer", <<log>>, log.trs)

\* a callback that does not look at $cursor
TimerTaskAnySelection ==
  /\ timers # <<>>
  /\ timers' = Tail(timers)
  /\ TimerRan(Run(Head(timers), rules[Head(timers)], St, composing,
                  sel.head, sel.head, <<>>))
  /\ UNCHANGED <<rules, composing>>

\* the setTimeout callback of compositionend
TimerTask ==
  /\ timers # <<>>
  /\ timers' = Tail(timers)
  /\ IF sel.anchor = sel.head
       THEN TimerRan(Run(Head(timers), rules[Head(timers)], St, composing,
                         sel.head, sel.head, <<>>))
       ELSE /\ UNCHANGED <<doc, sel, pstate>>
            /\ last' = Event("timer", <<>>, <<>>)
  /\ UNCHANGED <<rules, composing>>

\* the positions inside the text blocks of the document
TextPositions(b) == BlockStart(doc, b)..(BlockStart(doc, b) + Len(doc[b].content))

\* the view dispatches a transaction of its own
OtherTr(kind, tr) ==
  /\ Dispatch(tr)
  /\ last' = Event(kind, <<>>, <<tr>>)

\* some other transaction that sets the selection (anchor before head: the
\* plugin reads only $cursor and the ends of the range)
SetSelection ==
  /\ \E b \in 1..Len(doc) : \E a, h \in TextPositions(b) :
       /\ a <= h
       /\ OtherTr("setSelection",
                  TrSetSelection(NewTr(St), [anchor |-> a, head |-> h]))
  /\ UNCHANGED <<rules, composing, timers>>

\* some other transaction that changes the document: the character before
\* the cursor is deleted
DeleteBackward ==
  /\ sel.anchor = sel.head
  /\ Resolve(doc, sel.head).off > 0
  /\ OtherTr("delete", TrStep(NewTr(St), [from |-> sel.head - 1, to |-> sel.head,
                                          ins |-> <<>>]))
  /\ UNCHANGED <<rules, composing, timers>>

\* some other transaction that changes neither document nor selection
PlainUpdate ==
  /\ OtherTr("plain", NewTr(St))
  /\ UNCHANGED <<rules, composing, timers>>

\* the document the event ev would have left had no rule fired
TypedDoc(d, ev) ==
  StepApply(d, [from |-> ev.from, to |-> ev.to, ins |-> ev.text]).doc

\* the last event was a rule firing, seen by a revert with a callback
AfterRule(hasDispatch) ==
  /\ hasDispatch
  /\ last.kind \in {"textInput", "timer"}
  /\ last.runs # <<>>
  /\ last.runs[Len(last.runs)].ret = "true"

\* the end of the command: res is what undoInputRule returned and dispatched
UndoDone(hasDispatch, res, after) ==
  /\ IF res.trs # <<>>
       THEN Dispatch(res.trs[1])
       ELSE UNCHANGED <<doc, sel, pstate>>
  /\ last' = [kind |-> "undo", runs |-> <<>>, pre |-> <<>>, had |-> HasRecord,
              trs |-> Infos(res.trs),
              undo |-> [ret |-> res.ret, hasDispatch |-> hasDispatch,
                        afterRule |-> after,
                        expect |-> IF after
                                     THEN TypedDoc(last.pre, last.runs[Len(last.runs)])
                                     ELSE <<>>]]

\* the command undoInputRule(view.state, dispatch) with dispatch being
\* view.dispatch or absent
Undo(hasDispatch) ==
  /\ UndoDone(hasDispatch, UndoInputRule(St, hasDispatch), AfterRule(hasDispatch))
  /\ UNCHANGED <<rules, composing, timers>>

Next ==
  \/ \E text \in InputTexts : TextInput(text)
  \/ CompositionStart
  \/ EndComposition
  \/ CompositionEnd
  \/ TimerTask
  \/ SetSelection
  \/ DeleteBackward
  \/ PlainUpdate
  \/ \E hasDispatch \in BOOLEAN : Undo(hasDispatch)

Spec == Init /\ [][Next]_vars

\* the selection stays inside one text block and every record is well formed
TypeOK ==
  /\ \E b \in 1..Len(doc) : sel.anchor \in TextPositions(b) /\ sel.head \in TextPositions(b)
  /\ composing \in BOOLEAN
  /\ Len(timers) <= MaxTimers
  /\ \A p \in Engines : Len(pstate[p]) <= 1

(***************************************************************************)
(* Properties.  They read the log of the last event: its run calls, what   *)
(* each evaluated and dispatched, and the state the event left.            *)
(***************************************************************************)
\* the numbers 1..n in order
UpTo(n) == [i \in 1..n |-> i]

\* the elements of a sequence
Elems(q) == {q[i] : i \in 1..Len(q)}

\* the pattern of the rule matches the window and its handler is one that
\* returns a transaction
WouldProduce(rule, window) ==
  /\ Exec(rule.match, window) # None
  /\ rule.kind \in {"string", "noop"}

\* the rules of the engine of a run that would produce on its window
Producers(log) ==
  {i \in 1..Len(rules[log.p]) : WouldProduce(rules[log.p][i], log.window)}

\* the run calls of the last event that passed the guards of run
Reached == {k \in 1..Len(last.runs) : last.runs[k].guard = "none"}

\* C1: first match wins.  When one or more rules of the registry match the
\* window and would produce a transformation, the first of them in
\* registration order is the one applied: the rules are evaluated in order
\* up to it and none after it, exactly one transaction is dispatched for the
\* event, and no later engine is asked.
C1_FirstMatchWins ==
  /\ Len(last.trs) <= 1
  /\ \A k \in Reached :
       LET log  == last.runs[k]
           prod == Producers(log)
       IN  prod # {} =>
             LET first == CHOOSE i \in prod : \A j \in prod : i <= j
             IN  /\ log.evald = UpTo(first)
                 /\ log.ret # "false"
                 /\ log.ret = "true" =>
                      /\ log.applied = first
                      /\ Len(log.trs) = 1
                      /\ last.trs = Infos(log.trs)
                 /\ log.ret = "threw" => log.trs = <<>> /\ last.trs = <<>>
                 /\ k = Len(last.runs)

\* C1 witness: two rules would both produce on the window of a handled event
C1_Witness ==
  \E k \in Reached :
    /\ Cardinality(Producers(last.runs[k])) >= 2
    /\ last.runs[k].ret = "true"

\* C2: fallthrough on veto.  A rule whose pattern matches and whose action
\* returns none does not end the iteration: the next rule is evaluated; the
\* call reports "not handled" exactly when no rule both matches and returns
\* a transformation, and then every rule of the registry was tried in order.
C2_FallthroughOnVeto ==
  \A k \in Reached :
    LET log == last.runs[k]
        rs  == rules[log.p]
    IN  /\ \A i \in Elems(log.called) :
             (rs[i].kind = "veto" /\ i < Len(rs)) => (i + 1) \in Elems(log.evald)
        /\ log.ret = "false" <=> Producers(log) = {}
        /\ log.ret = "false" => log.evald = UpTo(Len(rs)) /\ log.trs = <<>>

\* C2 witness: a rule matched and vetoed, and a later rule was applied
C2_Witness ==
  \E k \in Reached :
    LET log == last.runs[k]
    IN  /\ log.applied > 0
        /\ \E i \in Elems(log.called) :
             i < log.applied /\ rules[log.p][i].kind = "veto"

\* C3: guards.  A run call made while the view is composing, or at a
\* position whose parent is a code block, returns false without executing a
\* pattern or a handler and without dispatching; the deferred check leaves
\* document, selection and records as they were, and after a text input
\* only the view's own insertion, which carries no record, is dispatched.
C3_Guards ==
  [][\A k \in 1..Len(last'.runs) :
       LET log == last'.runs[k]
           r   == Resolve(doc, log.from)
       IN  (composing \/ ParentIsCode(doc, r)) =>
             /\ log.ret = "false"
             /\ log.guard # "none"
             /\ log.evald = <<>> /\ log.called = <<>> /\ log.trs = <<>>
             /\ last'.kind = "timer" => UNCHANGED <<doc, sel, pstate>>
             /\ \A i \in 1..Len(last'.trs) : \A p \in Engines :
                  last'.trs[i].meta[p] = None]_vars

\* C3 witness: "-" is typed while composing, where a rule would match
C3_Witness ==
  /\ last.kind = "textInput"
  /\ last.runs[1].guard = "composing"
  /\ last.runs[1].text = <<"-">>

\* a second witness of the guards: a run call inside the code block
C3_WitnessCode == \E k \in 1..Len(last.runs) : last.runs[k].guard = "code"

\* C4: the transition of the plugin state.  Every engine starts with none;
\* on every state update the new state is the record the transaction
\* carries for the engine if it carries one, also when it changes document
\* or selection; otherwise none if the transaction set the selection or
\* changed the document; otherwise the previous state.  Without an update
\* the state stays.
C4_TrackerTransition ==
  /\ \A p \in Engines : pstate[p] = None
  /\ [][IF last'.trs = <<>> THEN pstate' = pstate
        ELSE LET tr == last'.trs[1]
             IN  \A p \in Engines :
                   pstate'[p] = IF tr.meta[p] # None THEN tr.meta[p]
                                ELSE IF tr.selectionSet \/ tr.docChanged THEN None
                                ELSE pstate[p]]_vars

\* C4 witness: a record is carried over an update that changes nothing
C4_Witness ==
  /\ last.kind = "plain"
  /\ last.trs # <<>>
  /\ HasRecord

\* a second witness: a transaction that changes the document installs the
\* record it carries
C4_WitnessStored ==
  /\ last.trs # <<>>
  /\ last.trs[1].docChanged
  /\ \E p \in Engines : last.trs[1].meta[p] # None /\ pstate[p] = last.trs[1].meta[p]

\* C5: run returns true exactly when a rule produced a transaction; then
\* that transaction, built on the current document, is the state update,
\* and the engine's record afterwards is that transaction with the from, to
\* and text of the event; when run returns false it dispatched nothing, the
\* deferred check leaves the state as it was, and after a text input no
\* dispatched transaction carries a record for this engine.
C5_HandledRecord ==
  [][\A k \in 1..Len(last'.runs) :
       LET log    == last'.runs[k]
           evFrom == IF last'.kind = "timer" THEN sel.head ELSE SelFrom(sel)
           evTo   == IF last'.kind = "timer" THEN sel.head ELSE SelTo(sel)
       IN  /\ log.ret = "true" =>
                /\ log.applied \in Producers(log)
                /\ Len(log.trs) = 1
                /\ LET tr == log.trs[1]
                   IN  /\ tr.docs = <<>> \/ tr.docs[1] = doc
                       /\ doc' = tr.doc
                       /\ sel' = tr.sel
                       /\ pstate'[log.p] =
                            Some([transform |-> [steps |-> tr.steps, docs |-> tr.docs],
                                  from |-> evFrom, to |-> evTo, text |-> log.text])
                /\ last'.kind = "timer" => log.text = <<>>
           /\ (log.guard # "none" \/ Producers(log) = {}) => log.ret = "false"
           /\ log.ret = "false" =>
                /\ log.trs = <<>>
                /\ log.applied = 0
                /\ \A i \in 1..Len(last'.trs) : last'.trs[i].meta[log.p] = None
           /\ (log.ret # "true" /\ last'.kind = "timer") =>
                UNCHANGED <<doc, sel, pstate>>]_vars

\* C5 witness: a handled text input whose replaced range starts before the
\* inserted range, with the record in the engine's state
C5_Witness ==
  \E k \in 1..Len(last.runs) :
    LET log == last.runs[k]
    IN  /\ last.kind = "textInput"
        /\ log.ret = "true"
        /\ log.trs[1].steps # <<>>
        /\ log.trs[1].steps[1].from < log.from
        /\ pstate[log.p] # None

\* undoInputRule finds nothing to undo in the state st, with or without dispatch
NothingToUndo(st) == \A h \in BOOLEAN : UndoInputRule(st, h).ret = "false"

\* C6: invalidation.  An update that sets the selection or changes the
\* document and carries no record leaves nothing to undo: undoInputRule
\* returns false after it, and keeps returning false over every later event
\* in which no rule fires.
C6_Invalidation ==
  [][LET nxt       == [doc |-> doc', sel |-> sel', pstate |-> pstate']
         fired     == \E i \in 1..Len(last'.trs) : \E p \in Engines :
                        last'.trs[i].meta[p] # None
         unrelated == \E i \in 1..Len(last'.trs) :
                        /\ last'.trs[i].docChanged \/ last'.trs[i].selectionSet
                        /\ \A p \in Engines : last'.trs[i].meta[p] = None
     IN  /\ unrelated => NothingToUndo(nxt)
         /\ (~fired /\ NothingToUndo(St)) => NothingToUndo(nxt)]_vars

\* C6 witness: an engine held a record, then an update without a record set
\* the selection or changed the document
C6_Witness ==
  /\ last.had
  /\ last.kind \in {"setSelection", "delete", "textInput"}
  /\ last.trs # <<>>
  /\ \A p \in Engines : last.trs[1].meta[p] = None
  /\ NothingToUndo(St)

\* C7: revert round trip.  undoInputRule with dispatch, called right after
\* an event in which a rule fired (a text input or the deferred check after
\* a composition), returns true and leaves the document that the event
\* would have left had no rule fired: the pre-rule document with the
\* event's range replaced by its text.
C7_RevertRoundTrip ==
  (last.kind = "undo" /\ last.undo.afterRule) =>
    /\ last.undo.ret = "true"
    /\ doc = last.undo.expect

\* the revert right after a rule fired in the deferred check raises
C7_CompositionRevertRaises ==
  /\ last.kind = "undo"
  /\ last.undo.afterRule
  /\ last.undo.ret = "threw"

\* C8: undoInputRule returns true exactly when some engine holds a record,
\* with and without dispatch; when none does it returns false and
\* dispatches nothing.
C8_RevertReturn ==
  last.kind = "undo" =>
    /\ last.undo.ret = "true" <=> last.had
    /\ ~last.had => (last.undo.ret = "false" /\ last.trs = <<>>)

\* C9: one-shot revert.  Once undoInputRule has dispatched its transaction,
\* no engine holds a record, the transaction carried none, and a second
\* undoInputRule returns false.
C9_OneShotRevert ==
  (last.kind = "undo" /\ last.trs # <<>>) =>
    /\ last.undo.hasDispatch
    /\ \A p \in Engines : pstate[p] = None /\ last.trs[1].meta[p] = None
    /\ NothingToUndo(St)

\* C9 witness: a revert was dispatched
C9_Witness ==
  /\ last.kind = "undo"
  /\ last.undo.ret = "true"
  /\ last.trs # <<>>

\* the text of the paragraph holding pos, had the text of the event ev been
\* inserted by the view, with the match of length mlen that ends at the
\* cursor replaced by the string
ExpectedLiteral(d, ev, mlen, string) ==
  LET r     == Resolve(d, ev.from)
      typed == TypedDoc(d, ev)[r.b].content
      cur   == r.off + Len(ev.text)
  IN  JsSlice(typed, 0, cur - mlen) \o string \o JsSliceFrom(typed, cur)

\* C10: literal replacement without a capture group.  When a text input of
\* one or more characters completes a match of a string rule in which no
\* group took part, the event leaves the text block as the inserted text
\* would have left it with exactly the matched span replaced by the string.
C10_LiteralReplace ==
  \A k \in Reached :
    LET log  == last.runs[k]
        prod == Producers(log)
    IN  (last.kind = "textInput" /\ prod # {}) =>
          LET first == CHOOSE i \in prod : \A j \in prod : i <= j
              rule  == rules[log.p][first]
              match == Exec(rule.match, log.window)[1]
              r     == Resolve(last.pre, log.from)
          IN  (rule.kind = "string" /\ match.m1 = None /\ rule.match.anchored) =>
                /\ log.ret = "true"
                /\ doc[r.b].content =
                     ExpectedLiteral(last.pre, log, Len(match.m0), rule.str)
                /\ \A b \in 1..Len(doc) : b # r.b => doc[b] = last.pre[b]

\* a text input was handled by a rule made with a string handler
C10_Reached ==
  \E k \in Reached :
    /\ last.kind = "textInput"
    /\ last.runs[k].ret = "true"
    /\ rules[last.runs[k].p][last.runs[k].applied].kind = "string"

(***************************************************************************)
(* Rules made with a string handler and a pattern with a capturing group   *)
(* /pre(g)post$/: one text input on every short paragraph, every selection *)
(* in it and every such rule.                                              *)
(***************************************************************************)
\* the string the rules are made with
Repl == <<"x">>

\* the texts of at most n characters
TextsUpTo(n) == UNION {TextsOfLen(k) : k \in 0..n}

GroupPatterns ==
  {Pattern(<<Grp(pre, g, post)>>, TRUE) :
     pre \in TextsUpTo(1), g \in TextsOfLen(1), post \in TextsUpTo(1)}

\* engine 2 has one rule, engine 3 an empty list of rules
GroupRegistries ==
  {[p \in Engines |-> IF p = 2 THEN <<StringRule(pat, Repl)>> ELSE <<>>] :
     pat \in GroupPatterns}

InitGroup ==
  /\ rules \in GroupRegistries
  /\ \E t \in TextsUpTo(MaxLen) :
       doc = <<[code |-> FALSE, content |-> t], [code |-> TRUE, content |-> <<>>]>>
  /\ \E a, h \in TextPositions(1) : a <= h /\ sel = [anchor |-> a, head |-> h]
  /\ pstate = [p \in Engines |-> None]
  /\ composing = FALSE
  /\ timers = <<>>
  /\ last = [kind |-> "init", runs |-> <<>>, pre |-> <<>>, had |-> FALSE,
             trs |-> <<>>, undo |-> NoUndo]

\* the first text-input event of the editor
FirstTextInput(text) ==
  /\ last.kind = "init"
  /\ TextInputHandled(text, SelFrom(sel), SelTo(sel),
                      SomeTextInput(1, SelFrom(sel), SelTo(sel), text))
  /\ UNCHANGED <<rules, composing, timers>>

NextGroup == \E text \in InputTexts : FirstTextInput(text)

SpecGroup == InitGroup /\ [][NextGroup]_vars

\* the first rule of the engine of a run that would produce on its window
\* (0: none)
FirstProducer(log) ==
  IF Producers(log) = {} THEN 0
  ELSE CHOOSE i \in Producers(log) : \A j \in Producers(log) : i <= j

\* the rule is made with a string handler and match[1] is a non-empty text
GroupTookPart(rule, match) ==
  rule.kind = "string" /\ match.m1 # None /\ match.m1[1] # <<>>

\* the run calls of the last text input in which the rule to apply is made
\* with a string handler and its match has a non-empty first group
GroupRuns ==
  {k \in Reached :
     /\ last.kind = "textInput"
     /\ FirstProducer(last.runs[k]) > 0
     /\ GroupTookPart(rules[last.runs[k].p][FirstProducer(last.runs[k])],
                      Exec(rules[last.runs[k].p][FirstProducer(last.runs[k])].match,
                           last.runs[k].window)[1])}

\* C11: the range of the replacement is ordered.  When the match of a rule
\* made with a string handler has a non-empty first group, the handler makes
\* one replace step whose start is not after its end, whatever the offset of
\* the group, the length of the match, the inserted text and its range.
C11_RangeOrdered ==
  \A k \in GroupRuns :
    LET log == last.runs[k]
    IN  /\ log.ret = "true"
        /\ Len(log.trs[1].steps) = 1
        /\ log.trs[1].steps[1].from <= log.trs[1].steps[1].to
        /\ log.trs[1].steps[1].to = log.to

\* C11 witness: the group was captured in the inserted text, past the end of
\* the range (cutOff > 0), and the replacement starts at the end of the range
C11_Witness ==
  \E k \in GroupRuns :
    LET log   == last.runs[k]
        match == Exec(rules[log.p][1].match, log.window)[1]
    IN  /\ MatchStart(log, match) + LastIndexOf(match.m0, match.m1[1]) > log.to
        /\ log.trs[1].steps[1].from = log.to

\* a second witness: the group was captured before the start of the range
C11_WitnessBefore ==
  \E k \in GroupRuns :
    LET log   == last.runs[k]
        match == Exec(rules[log.p][1].match, log.window)[1]
    IN  /\ MatchStart(log, match) + LastIndexOf(match.m0, match.m1[1]) < log.from
        /\ log.from < log.to

(***************************************************************************)
(* The editor with its timers: a callback handed to setTimeout is run in   *)
(* the end.                                                                *)
(***************************************************************************)
SpecFair == Spec /\ WF_vars(TimerTask)

\* the run call of the setTimeout callback: the last event is that callback
\* and the selection was an empty one outside the code block
DeferredRun ==
  /\ last.kind = "timer"
  /\ last.runs # <<>>
  /\ ~ParentIsCode(last.pre, Resolve(last.pre, last.runs[1].from))

\* C12: composition.  No event that happens while the view is composing
\* dispatches a transaction with a record or gives an engine a new record;
\* the callback of every compositionend is run in the end, and when the
\* selection is then a cursor outside the code block it evaluates the rules
\* on the text before the cursor once, so that the first rule that would
\* produce is applied.
C12_Composition ==
  /\ [][composing =>
          /\ \A i \in 1..Len(last'.trs) : \A p \in Engines :
               last'.trs[i].meta[p] = None
          /\ \A p \in Engines : pstate'[p] # None => pstate'[p] = pstate[p]]_vars
  /\ (timers # <<>>) ~> (last.kind = "timer")
  /\ [](DeferredRun =>
          /\ Len(last.runs) = 1
          /\ last.runs[1].guard = "none"
          /\ last.runs[1].text = <<>>
          /\ Producers(last.runs[1]) # {} =>
               /\ last.runs[1].ret = "true"
               /\ last.runs[1].applied = FirstProducer(last.runs[1]))

\* the deferred check of a compositionend ran while the view was still
\* composing and evaluated no rule
C12_StillComposing ==
  /\ DeferredRun
  /\ last.runs[1].guard = "composing"

\* C13: the record after undoInputRule.  After every undoInputRule that
\* found an engine holding a record, with dispatch or without, no engine
\* holds a record.
C13_RecordCleared ==
  (last.kind = "undo" /\ last.had) => \A p \in Engines : pstate[p] = None

\* C13 as amended: after an undoInputRule that found a record and dispatched
\* its transaction no engine holds a record; a call that dispatched nothing,
\* as every call without dispatch, leaves document, selection and records
\* as they were.
C13_ClearedByDispatch ==
  [][(last'.kind = "undo" /\ HasRecord) =>
       /\ last'.undo.ret # "false"
       /\ ~last'.undo.hasDispatch => last'.trs = <<>>
       /\ IF last'.trs # <<>>
            THEN \A p \in Engines : pstate'[p] = None
            ELSE UNCHANGED <<doc, sel, pstate>>]_vars

\* C13 witness: undoInputRule without dispatch found a record, and the
\* record is still held
C13_Witness ==
  /\ last.kind = "undo"
  /\ last.had
  /\ ~last.undo.hasDispatch
  /\ last.undo.ret = "true"
  /\ HasRecord

\* the text of the block holding the range of the event ev, had the view
\* inserted the event's text over its range and had then the len characters
\* at index goff of the match, which ends at the cursor, been replaced by
\* the string
ExpectedGroup(d, ev, match, goff, len, string) ==
  LET r     == Resolve(d, ev.from)
      typed == TypedDoc(d, ev)[r.b].content
      at    == r.off + Len(ev.text) - Len(match.m0) + goff
  IN  JsSlice(typed, 0, at) \o string \o JsSliceFrom(typed, at + len)

\* C14: literal replacement with a group.  When the match of a rule made
\* with a string handler has a non-empty first group, the text input leaves
\* the block as the insertion of the text over its range would have left it
\* with only the span captured by the group replaced by the string: nothing
\* of the match or of the typed text outside the group is lost or doubled,
\* and nothing of the replaced range stays.
C14_GroupReplace ==
  \A k \in GroupRuns :
    LET log   == last.runs[k]
        rule  == rules[log.p][FirstProducer(log)]
        match == Exec(rule.match, log.window)[1]
        r     == Resolve(last.pre, log.from)
    IN  /\ log.ret = "true"
        /\ doc[r.b].content =
             ExpectedGroup(last.pre, log, match, match.goff, Len(match.m1[1]), rule.str)
        /\ \A b \in 1..Len(doc) : b # r.b => doc[b] = last.pre[b]

\* a text input over a non-empty range, no longer than the match and with
\* the group's text occurring once in the match, that leaves another text
\* than C14 says
C14_RangeStraddled ==
  \E k \in GroupRuns :
    LET log   == last.runs[k]
        rule  == rules[log.p][FirstProducer(log)]
        match == Exec(rule.match, log.window)[1]
        r     == Resolve(last.pre, log.from)
    IN  /\ log.from < log.to
        /\ Len(log.text) <= Len(match.m0)
        /\ LastIndexOf(match.m0, match.m1[1]) = match.goff
        /\ doc[r.b].content #
             ExpectedGroup(last.pre, log, match, match.goff, Len(match.m1[1]), rule.str)

\* C15: the span of the group.  When the match of a rule made with a
\* string handler has a non-empty first group, the last occurrence of the
\* group's text in the match is where the group captured, also when that
\* text occurs again later in the match; so for a text typed at a cursor
\* and no longer than the match the span replaced by the string is the
\* span of the group, and the rest of the match stays as it was.
C15_GroupOffset ==
  \A k \in GroupRuns :
    LET log   == last.runs[k]
        rule  == rules[log.p][FirstProducer(log)]
        match == Exec(rule.match, log.window)[1]
        r     == Resolve(last.pre, log.from)
    IN  /\ LastIndexOf(match.m0, match.m1[1]) = match.goff
        /\ (log.from = log.to /\ Len(log.text) <= Len(match.m0)) =>
             /\ log.ret = "true"
             /\ doc[r.b].content =
                  ExpectedGroup(last.pre, log, match, match.goff,
                                Len(match.m1[1]), rule.str)

\* the text of the group occurs again later in the match, and the string
\* replaced that later occurrence
C15_LaterOccurrence ==
  \E k \in GroupRuns :
    LET log   == last.runs[k]
        rule  == rules[log.p][FirstProducer(log)]
        match == Exec(rule.match, log.window)[1]
        r     == Resolve(last.pre, log.from)
    IN  /\ log.from = log.to
        /\ Len(log.text) <= Len(match.m0)
        /\ LastIndexOf(match.m0, match.m1[1]) > match.goff
        /\ doc[r.b].content =
             ExpectedGroup(last.pre, log, match,
                           LastIndexOf(match.m0, match.m1[1]),
                           Len(match.m1[1]), rule.str)

(***************************************************************************)
(* Paragraphs about MAX_MATCH long: one text input, or a composition and   *)
(* its deferred check, with the selection near either end of the text.     *)
(***************************************************************************)
\* a paragraph text of n items: "a" but for a "-" and an image (0: none)
LongText(n, dash, img) ==
  [i \in 1..n |-> IF i = img THEN Img ELSE IF i = dash THEN "-" ELSE "a"]

LongTexts ==
  {LongText(n, dash, img) :
     n \in (MAX_MATCH - 1)..(MAX_MATCH + 2),
     dash \in {1, 2, MAX_MATCH - 1, MAX_MATCH + 2},
     img \in {0, 1, 3}}

InitWindow ==
  /\ rules \in Registries
  /\ \E t \in LongTexts :
       doc = <<[code |-> FALSE, content |-> t], [code |-> TRUE, content |-> <<>>]>>
  /\ \E a, h \in TextPositions(1) \cap
                  {1, 2, MAX_MATCH, MAX_MATCH + 1, MAX_MATCH + 2, MAX_MATCH + 3} :
       a <= h /\ h - a <= 1 /\ sel = [anchor |-> a, head |-> h]
  /\ pstate = [p \in Engines |-> None]
  /\ composing = FALSE
  /\ timers = <<>>
  /\ last = [kind |-> "init", runs |-> <<>>, pre |-> <<>>, had |-> FALSE,
             trs |-> <<>>, undo |-> NoUndo]

NextWindow ==
  \/ \E text \in InputTexts : FirstTextInput(text)
  \/ CompositionStart
  \/ CompositionEnd
  \/ EndComposition
  \/ TimerTask

SpecWindow == InitWindow /\ [][NextWindow]_vars

\* the items of a block before the offset off, at most n of them, as text
LastItems(content, off, n) ==
  [i \in 1..Min(off, n) |-> ItemText(content[off - Min(off, n) + i])]

\* C16: the window.  In every run call that reaches the rules the subject
\* is the text of the block of from between max(0, offset - 500) and the
\* offset of from, followed by the inserted text: it is at most 500
\* characters longer than the inserted text and ends with it, and a rule
\* made with a string handler whose match has no group replaces from
\* from - (match[0].length - text.length) on.
C16_WindowBound ==
  \A k \in Reached :
    LET log == last.runs[k]
        r   == Resolve(last.pre, log.from)
    IN  /\ r.b > 0
        /\ log.window = LastItems(last.pre[r.b].content, r.off, MAX_MATCH) \o log.text
        /\ Len(log.window) <= MAX_MATCH + Len(log.text)
        /\ (log.applied > 0 /\ rules[log.p][log.applied].kind = "string"
              /\ ~GroupTookPart(rules[log.p][log.applied],
                                Exec(rules[log.p][log.applied].match, log.window)[1])) =>
             log.trs[1].steps[1].from =
               log.from - (Len(Exec(rules[log.p][log.applied].match, log.window)[1].m0)
                           - Len(log.text))

\* C16 witness: the block holds more than 500 characters before from, the
\* first of them a "-", and the window is 500 characters and the text
C16_Witness ==
  \E k \in Reached :
    LET log == last.runs[k]
        r   == Resolve(last.pre, log.from)
    IN  /\ r.off > MAX_MATCH
        /\ last.pre[r.b].content[1] = "-"
        /\ Len(log.window) = MAX_MATCH + Len(log.text)
        /\ log.applied > 0

\* C17: the deferred check.  The compositionend handler evaluates no rule
\* and changes nothing but the list of waiting callbacks, which gets one
\* callback more; the callback runs later as a step of its own and calls
\* run once with the empty text and from = to = the cursor of the selection
\* at that time, or calls nothing when that selection is not empty; no other
\* event adds or removes a callback or calls run with the empty text.
C17_DeferredCheck ==
  [][/\ last'.kind = "compositionend" =>
          /\ last'.runs = <<>> /\ last'.trs = <<>>
          /\ UNCHANGED <<doc, sel, pstate>>
          /\ Len(timers') = Len(timers) + 1
     /\ last'.kind = "timer" =>
          /\ timers # <<>> /\ timers' = Tail(timers)
          /\ IF sel.anchor = sel.head
               THEN /\ Len(last'.runs) = 1
                    /\ last'.runs[1].p = Head(timers)
                    /\ last'.runs[1].text = <<>>
                    /\ last'.runs[1].from = sel.head
                    /\ last'.runs[1].to = sel.head
               ELSE /\ last'.runs = <<>> /\ last'.trs = <<>>
                    /\ UNCHANGED <<doc, sel, pstate>>
     /\ last'.kind \notin {"compositionend", "timer"} =>
          /\ timers' = timers
          /\ \A k \in 1..Len(last'.runs) : last'.runs[k].text # <<>>]_vars

\* C17 witness: the callback ran with the cursor away from the start of the
\* paragraph, where it was when the editor started, and reached the rules
C17_Witness ==
  /\ last.kind = "timer"
  /\ last.runs # <<>>
  /\ last.runs[1].guard = "none"
  /\ last.runs[1].from > 1

\* a second witness: the callback found a selection that is not empty
C17_WitnessSkipped ==
  /\ last.kind = "timer"
  /\ last.runs = <<>>

\* the engines that hold a record
Holders == {p \in Engines : pstate[p] # None}

\* C18: with several engines registered, at most one of them holds a record
\* at any time, and when a rule has just been applied it is the engine that
\* applied it, so that undoInputRule, which takes the first engine holding
\* a record, reverts the most recent rule application.
C18_OneRecord ==
  /\ Cardinality(Holders) <= 1
  /\ (last.trs # <<>> /\ last.kind \in {"textInput", "timer"}) =>
        \A k \in 1..Len(last.runs) :
          last.runs[k].ret = "true" => Holders = {last.runs[k].p}

\* the recorded steps of the transformation t, from step j on, lead from the
\* documents t kept to the document d: step j applies to docs[j] and gives
\* docs[j + 1], the last step gives d
RECURSIVE Replays(_, _, _)
Replays(t, j, d) ==
  IF j > Len(t.steps) THEN TRUE
  ELSE /\ StepApply(t.docs[j], t.steps[j]).ok
       /\ StepApply(t.docs[j], t.steps[j]).doc =
            (IF j = Len(t.steps) THEN d ELSE t.docs[j + 1])
       /\ Replays(t, j + 1, d)

\* the record of engine p fits the document d
RecordFits(p, d) ==
  /\ Len(pstate[p][1].transform.docs) = Len(pstate[p][1].transform.steps)
  /\ Replays(pstate[p][1].transform, 1, d)
  /\ UndoSteps(St, pstate[p][1].transform, 1).ok

\* C19: while an engine holds a record, the document is the one the recorded
\* transformation produced from the document it was built against, and the
\* recorded steps, inverted last first against the documents kept with them,
\* can all be applied to it; as long as the engine keeps that record, no step
\* changes the document or the selection.
C19_RecordFitsDoc ==
  /\ [](\A p \in Engines : pstate[p] # None => RecordFits(p, doc))
  /\ [][\A p \in Engines :
          (pstate[p] # None /\ pstate'[p] = pstate[p]) =>
             UNCHANGED <<doc, sel>>]_vars

\* C19 witness: a record with a step that changed the document has outlived
\* a later transaction that carried nothing for its engine
C19_Witness ==
  \E p \in Engines :
    /\ pstate[p] # None
    /\ pstate[p][1].transform.steps # <<>>
    /\ pstate[p][1].transform.docs[1] # doc
    /\ last.trs # <<>>
    /\ \A k \in 1..Len(last.trs) : last.trs[k].meta[p] = None

====
